---- MODULE Spec2Model ----
(***************************************************************************)
(* A model of monetdb/control.py: the sabdb status-line parser             *)
(* (parse_statusline), the reply check (isempty) and the Control client,   *)
(* which opens a transport connection per command on the one              *)
(* mapi.Connection object it keeps in self.server.                         *)
(*                                                                         *)
(* Python text is modelled as a sequence of one-character strings, so that *)
(* startswith, split, int(), float() and the % formatting are computed     *)
(* character by character.  A Python call's outcome is a record            *)
(* [kind, exc, val]: kind "return" with the value in val, or kind "raise"  *)
(* with the exception class in exc and its argument in val.                *)
(***************************************************************************)
EXTENDS Integers, Sequences, FiniteSets, TLC

----------------------------------------------------------------------------
(* Python values and outcomes *)

None == <<"None">>

Return(v) == [kind |-> "return", exc |-> "", val |-> v]

Raise(e, m) == [kind |-> "raise", exc |-> e, val |-> m]

(* datetime.fromtimestamp(n): the point in time n seconds from the epoch *)
fromtimestamp(n) == <<"datetime", n>>

----------------------------------------------------------------------------
(* Text primitives *)

Digits == <<"0", "1", "2", "3", "4", "5", "6", "7", "8", "9">>

IsDigit(c) == \E i \in 1..Len(Digits) : Digits[i] = c

DigitVal(c) == (CHOOSE i \in 1..Len(Digits) : Digits[i] = c) - 1

(* str.startswith *)
startswith(s, p) == Len(s) >= Len(p) /\ SubSeq(s, 1, Len(p)) = p

(* the index of the first occurrence of character c in s, 0 when absent *)
find(s, c) ==
    IF \E i \in 1..Len(s) : s[i] = c
    THEN CHOOSE i \in 1..Len(s) : s[i] = c /\ \A j \in 1..(i - 1) : s[j] # c
    ELSE 0

(* str.split(c, maxsplit) for a one-character separator; maxsplit -1 is    *)
(* unlimited, as in Python                                                  *)
RECURSIVE split(_, _, _)
split(s, c, maxsplit) ==
    IF maxsplit = 0 \/ find(s, c) = 0
    THEN <<s>>
    ELSE <<SubSeq(s, 1, find(s, c) - 1)>>
         \o split(SubSeq(s, find(s, c) + 1, Len(s)), c, maxsplit - 1)

(* sep.join(parts) *)
RECURSIVE join(_, _)
join(parts, c) ==
    IF parts = <<>> THEN <<>>
    ELSE IF Len(parts) = 1 THEN parts[1]
    ELSE parts[1] \o <<c>> \o join(Tail(parts), c)

(* str.strip() of the blanks in the model's alphabet *)
RECURSIVE lstrip(_)
lstrip(s) == IF s # <<>> /\ s[1] = " " THEN lstrip(Tail(s)) ELSE s

RECURSIVE rstrip(_)
rstrip(s) ==
    IF s # <<>> /\ s[Len(s)] = " " THEN rstrip(SubSeq(s, 1, Len(s) - 1)) ELSE s

strip(s) == rstrip(lstrip(s))

(* "%i" % n and str(n) *)
RECURSIVE NatToStr(_)
NatToStr(n) ==
    IF n < 10 THEN <<Digits[n + 1]>>
    ELSE NatToStr(n \div 10) \o <<Digits[(n % 10) + 1]>>

IntToStr(n) == IF n < 0 THEN <<"-">> \o NatToStr(-n) ELSE NatToStr(n)

RECURSIVE DigitsVal(_)
DigitsVal(s) ==
    IF s = <<>> THEN 0
    ELSE 10 * DigitsVal(SubSeq(s, 1, Len(s) - 1)) + DigitVal(s[Len(s)])

AllDigits(s) == \A i \in 1..Len(s) : IsDigit(s[i])

HasSign(s) == s # <<>> /\ s[1] \in {"-", "+"}

Unsigned(s) == IF HasSign(s) THEN Tail(s) ELSE s

Sign(s) == IF s # <<>> /\ s[1] = "-" THEN -1 ELSE 1

InvalidLiteral == <<"i", "n", "v", "a", "l", "i", "d">>

(* int(s): blanks stripped, an optional sign, then one or more digits *)
int(s) ==
    LET t == strip(s)
        d == Unsigned(t)
    IN  IF d # <<>> /\ AllDigits(d)
        THEN Return(Sign(t) * DigitsVal(d))
        ELSE Raise("ValueError", InvalidLiteral)

(* A float is kept as the exact decimal num / 10^scale, without trailing   *)
(* zeros, so that 1.50 and 1.5 are the same value.                          *)
RECURSIVE Decimal(_, _)
Decimal(num, scale) ==
    IF scale > 0 /\ num % 10 = 0 THEN Decimal(num \div 10, scale - 1)
    ELSE <<"float", num, scale>>

(* float(s): blanks stripped, an optional sign, digits with at most one    *)
(* point and at least one digit                                            *)
float(s) ==
    LET t == strip(s)
        d == Unsigned(t)
        p == find(d, ".")
        whole == IF p = 0 THEN d ELSE SubSeq(d, 1, p - 1)
        frac == IF p = 0 THEN <<>> ELSE SubSeq(d, p + 1, Len(d))
    IN  IF AllDigits(whole) /\ AllDigits(frac) /\ Len(whole) + Len(frac) > 0
        THEN Return(Decimal(Sign(t) * DigitsVal(whole \o frac), Len(frac)))
        ELSE Raise("ValueError", InvalidLiteral)

----------------------------------------------------------------------------
(* parse_statusline *)

TagSabdb == <<"s", "a", "b", "d", "b", ":">>

WrongResult ==
    <<"w", "r", "o", "n", "g", " ", "r", "e", "s", "u", "l", "t", " ",
      "r", "e", "c", "i", "e", "v", "e", "d">>

UnsupportedSabdb ==
    <<"u", "n", "s", "u", "p", "p", "o", "r", "t", "e", "d", " ",
      "s", "a", "b", "d", "b", " ", "p", "r", "o", "t", "o", "c", "o", "l">>

NotEnoughValues == <<"u", "n", "p", "a", "c", "k">>

(* a last_crash decode that takes 0 for unset too *)
decode_last_crash_positive(last_crash) ==
    IF last_crash > 0 THEN fromtimestamp(last_crash) ELSE None

(* line 60: a timestamp, or None for a negative value *)
decode_last_crash(last_crash) ==
    IF last_crash >= 0 THEN fromtimestamp(last_crash) ELSE None

(* line 61: always a timestamp *)
decode_last_start(value) == fromtimestamp(value)

(* lines 64-67: a timestamp, or None for a value not above -1 *)
decode_last_stop(value) ==
    IF value > -1 THEN fromtimestamp(value) ELSE None

(* One conversion of the positional decode: what the statement does with   *)
(* the token next(sub_iter) gave it.                                       *)
Convert(conv, tok) ==
    CASE conv = "str" -> Return(tok)
      [] conv = "eq1" -> Return(tok = <<"1">>)
      [] conv = "int" -> int(tok)
      [] conv = "scenarios" -> Return(split(tok, "'", -1))
      [] conv = "skip" -> Return(None)
      [] conv = "last_crash" ->
            LET n == int(tok)
            IN  IF n.kind = "raise" THEN n ELSE Return(decode_last_crash(n.val))
      [] conv = "last_start" ->
            LET n == int(tok)
            IN  IF n.kind = "raise" THEN n ELSE Return(decode_last_start(n.val))
      [] conv = "last_stop" ->
            LET n == int(tok)
            IN  IF n.kind = "raise" THEN n ELSE Return(decode_last_stop(n.val))
      [] conv = "float" -> float(tok)

Step(key, conv) == [key |-> key, conv |-> conv]

(* The statements of lines 46-70 in order, for protocol version v *)
FieldSteps(v) ==
    <<Step("name", "str"), Step("path", "str"), Step("locked", "eq1"),
      Step("state", "int"), Step("scenarios", "scenarios")>>
    \o (IF v = 1 THEN <<Step("", "skip")>> ELSE <<>>)
    \o <<Step("start_counter", "int"), Step("stop_counter", "int"),
         Step("crash_counter", "int"), Step("avg_uptime", "int"),
         Step("max_uptime", "int"), Step("min_uptime", "int"),
         Step("last_crash", "last_crash"), Step("last_start", "last_start")>>
    \o (IF v > 1 THEN <<Step("last_stop", "last_stop")>> ELSE <<>>)
    \o <<Step("crash_avg1", "eq1"), Step("crash_avg10", "float"),
         Step("crash_avg30", "float")>>

EmptyInfo == [k \in {} |-> None]

(* Runs the statements over the iterator: position i in subparts.  next()  *)
(* on an exhausted iterator raises StopIteration; a raising conversion     *)
(* leaves the function at once, so no info is returned.                    *)
RECURSIVE Decode(_, _, _, _)
Decode(steps, subparts, i, info) ==
    IF steps = <<>> THEN Return(info)
    ELSE IF i > Len(subparts) THEN Raise("StopIteration", <<>>)
    ELSE LET r == Convert(steps[1].conv, subparts[i])
         IN  IF r.kind = "raise" THEN r
             ELSE Decode(Tail(steps), subparts, i + 1,
                         IF steps[1].conv = "skip" THEN info
                         ELSE info @@ (steps[1].key :> r.val))

(* a parser that keeps the leading marker *)
strip_marker_never(line) == line

(* lines 29-30: one leading "=" is dropped *)
strip_marker(line) ==
    IF startswith(line, <<"=">>) THEN Tail(line) ELSE line

(* a split at every colon of the line *)
split_line_everywhere(line) == split(line, ":", -1)

(* line 34: line.split(":", 2), the first two colons only *)
split_line(line) == split(line, ":", 2)

parse_statusline(line0) ==
    LET line == strip_marker(line0)
        parts == split_line(line)
    IN  IF ~startswith(line, TagSabdb)
        THEN Raise("OperationalError", WrongResult)
        ELSE IF Len(parts) # 3
        THEN Raise("ValueError", NotEnoughValues)
        ELSE IF parts[2] \notin {<<"1">>, <<"2">>}
        THEN Raise("InterfaceError", UnsupportedSabdb)
        ELSE Decode(FieldSteps(DigitVal(parts[2][1])), split(parts[3], ",", -1),
                    1, EmptyInfo)

----------------------------------------------------------------------------
(* The status-line format of the wire protocol: what the supervisor sends. *)
(* A line is built from field values f: texts, booleans, integers, the     *)
(* encoded epoch integers and exact decimals.                              *)

RECURSIVE Pow10(_)
Pow10(n) == IF n = 0 THEN 1 ELSE 10 * Pow10(n - 1)

RECURSIVE ZeroPad(_, _)
ZeroPad(s, width) == IF Len(s) >= width THEN s ELSE ZeroPad(<<"0">> \o s, width)

(* a non-negative decimal written with a point and at least one digit      *)
(* after it                                                                *)
FloatToStr(f) ==
    NatToStr(f[2] \div Pow10(f[3])) \o <<".">>
    \o ZeroPad(NatToStr(f[2] % Pow10(f[3])), IF f[3] = 0 THEN 1 ELSE f[3])

Bit(b) == IF b THEN <<"1">> ELSE <<"0">>

FieldTokens(v, f) ==
    <<f.name, f.path, Bit(f.locked), IntToStr(f.state),
      join(f.scenarios, "'")>>
    \o (IF v = 1 THEN <<f.placeholder>> ELSE <<>>)
    \o <<IntToStr(f.start_counter), IntToStr(f.stop_counter),
         IntToStr(f.crash_counter), IntToStr(f.avg_uptime),
         IntToStr(f.max_uptime), IntToStr(f.min_uptime),
         IntToStr(f.last_crash), IntToStr(f.last_start)>>
    \o (IF v >= 2 THEN <<IntToStr(f.last_stop)>> ELSE <<>>)
    \o <<Bit(f.crash_avg1), FloatToStr(f.crash_avg10),
         FloatToStr(f.crash_avg30)>>

StatusLine(marker, v, tokens) ==
    (IF marker THEN <<"=">> ELSE <<>>)
    \o TagSabdb \o IntToStr(v) \o <<":">> \o join(tokens, ",")

(* the token sequence without the token at position pos *)
RemoveAt(tokens, pos) ==
    SubSeq(tokens, 1, pos - 1) \o SubSeq(tokens, pos + 1, Len(tokens))

----------------------------------------------------------------------------
(* isempty and the reply decoding of the Control methods *)

(* an isempty that takes every reply for a success *)
isempty_always_true(result) == Return(TRUE)

(* isempty(result), lines 75-80 *)
isempty(result) ==
    IF result # <<>> THEN Raise("OperationalError", result) ELSE Return(TRUE)

(* values[key] = value on a dict kept as a function *)
SetItem(values, key, value) ==
    [k \in (DOMAIN values) \cup {key} |-> IF k = key THEN value ELSE values[k]]

(* a loop body that reads comment lines as well *)
get_line_keep_comments(line0, values) ==
    LET line == IF startswith(line0, <<"=">>) THEN Tail(line0) ELSE line0
        parts == split(line, "=", -1)
    IN  IF find(line, "=") # 0
        THEN SetItem(values, parts[1], parts[2])
        ELSE values

(* the body of the loop of Control.get, lines 207-212, for one line *)
get_line(line0, values) ==
    LET line == IF startswith(line0, <<"=">>) THEN Tail(line0) ELSE line0
        parts == split(line, "=", -1)
    IN  IF ~startswith(line, <<"#">>) /\ find(line, "=") # 0
        THEN SetItem(values, parts[1], parts[2])
        ELSE values

(* the loop of Control.get, lines 205-213, over the lines still to read *)
RECURSIVE get_values(_, _)
get_values(lines, values) ==
    IF lines = <<>> THEN values
    ELSE get_values(Tail(lines), get_line(lines[1], values))

(* a comprehension that leaves out the lines that fail to parse *)
RECURSIVE parse_all_skip_failed(_, _)
parse_all_skip_failed(lines, done) ==
    IF lines = <<>> THEN Return(done)
    ELSE LET r == parse_statusline(lines[1])
         IN  parse_all_skip_failed(Tail(lines),
                                   IF r.kind = "raise" THEN done
                                   ELSE Append(done, r.val))

(* the list comprehension of Control.status, line 166: the first line that *)
(* fails to parse raises out of the call                                   *)
RECURSIVE parse_all(_, _)
parse_all(lines, done) ==
    IF lines = <<>> THEN Return(done)
    ELSE LET r == parse_statusline(lines[1])
         IN  IF r.kind = "raise" THEN r
             ELSE parse_all(Tail(lines), Append(done, r.val))

----------------------------------------------------------------------------
(* Texts of the Control class *)

False == <<"False">>

Truthy(v) == v # None /\ v # False /\ v # <<>>

T_monetdb == <<"m", "o", "n", "e", "t", "d", "b">>
T_merovingian == <<"m", "e", "r", "o", "v", "i", "n", "g", "i", "a", "n">>
T_control == <<"c", "o", "n", "t", "r", "o", "l">>
T_localhost == <<"l", "o", "c", "a", "l", "h", "o", "s", "t">>
T_socket_prefix == <<"/", "t", "m", "p", "/", ".", "s", ".", "m", "e", "r", "o", "v", "i", "n", "g", "i", "a", "n", ".">>
T_all == <<"#", "a", "l", "l">>
T_defaults == <<"#", "d", "e", "f", "a", "u", "l", "t", "s">>
T_name == <<"n", "a", "m", "e">>
T_get == <<"g", "e", "t">>
T_status == <<"s", "t", "a", "t", "u", "s">>
T_anelosimus == <<"a", "n", "e", "l", "o", "s", "i", "m", "u", "s">>
T_eximius == <<"e", "x", "i", "m", "i", "u", "s">>

(* the command word each one-line method sends *)
CommandWord(op) ==
    CASE op = "create" -> <<"c", "r", "e", "a", "t", "e">>
      [] op = "destroy" -> <<"d", "e", "s", "t", "r", "o", "y">>
      [] op = "lock" -> <<"l", "o", "c", "k">>
      [] op = "release" -> <<"r", "e", "l", "e", "a", "s", "e">>
      [] op = "start" -> <<"s", "t", "a", "r", "t">>
      [] op = "stop" -> <<"s", "t", "o", "p">>
      [] op = "kill" -> <<"k", "i", "l", "l">>

SimpleOps == {"create", "destroy", "lock", "release", "start", "stop", "kill"}

(* the methods whose reply goes through isempty *)
MutatingOps == SimpleOps \cup {"set", "inherit", "rename"}

(* a command text without the "=" *)
set_command_no_equals(property_, value) == property_ \o value

(* "%s=%s" % (property_, value), line 196 *)
set_command(property_, value) == property_ \o <<"=">> \o value

(* property_ + "=", line 220 *)
inherit_command(property_) == property_ \o <<"=">>

(* The arguments a public method hands to _send_command: <<database_name,  *)
(* command>>.  c is the call: [op, db, property, value].                   *)
send_args(c) ==
    CASE c.op \in SimpleOps -> <<c.db, CommandWord(c.op)>>
      [] c.op = "status" ->
            IF Truthy(c.db) THEN <<c.db, T_status>> ELSE <<T_all, T_status>>
      [] c.op = "set" -> <<c.db, set_command(c.property, c.value)>>
      [] c.op = "get" -> <<c.db, T_get>>
      [] c.op = "inherit" -> <<c.db, inherit_command(c.property)>>
      [] c.op = "rename" -> <<c.db, set_command(T_name, c.value)>>
      [] c.op = "defaults" -> <<T_defaults, T_get>>
      [] c.op = "neighbours" -> <<T_anelosimus, T_eximius>>

(* What a public method makes of the reply raw that _send_command returned *)
interpret(c, raw) ==
    CASE c.op \in MutatingOps -> isempty(raw)
      [] c.op = "status" ->
            IF Truthy(c.db) THEN parse_statusline(raw)
            ELSE parse_all(split(raw, "\n", -1), <<>>)
      [] c.op \in {"get", "defaults"} ->
            Return(get_values(split(raw, "\n", -1), EmptyInfo))
      [] c.op = "neighbours" -> Return(raw)

(* "%s %s\n" % (database_name, command), line 116 *)
request_line(database_name, command) ==
    database_name \o <<" ">> \o command \o <<"\n">>

(* a connect that leaves the passphrase out *)
connect_args_no_password(hostname, port, passphrase, unix_socket) ==
    [hostname |-> hostname, port |-> port, username |-> T_monetdb,
     password |-> None, database |-> T_merovingian,
     language |-> T_control, unix_socket |-> unix_socket]

(* the keyword arguments of self.server.connect, lines 104-107 and 111-114 *)
connect_args(hostname, port, passphrase, unix_socket) ==
    [hostname |-> hostname, port |-> port, username |-> T_monetdb,
     password |-> passphrase, database |-> T_merovingian,
     language |-> T_control, unix_socket |-> unix_socket]

(* lines 91-92 *)
default_unix_socket(unix_socket, port) ==
    IF ~Truthy(unix_socket) THEN T_socket_prefix \o IntToStr(port)
    ELSE unix_socket

(* lines 94-95 *)
default_hostname(hostname, system) ==
    IF system = "Windows" /\ ~Truthy(hostname) THEN T_localhost ELSE hostname

(* lines 97-101: the object the constructor fills in *)
new_self(hostname, port, passphrase, unix_socket, system) ==
    [hostname |-> default_hostname(hostname, system), port |-> port,
     passphrase |-> passphrase,
     unix_socket |-> default_unix_socket(unix_socket, port)]

----------------------------------------------------------------------------
(* The transport collaborator, mapi.Connection: connect, cmd, disconnect.  *)
(* The object holds at most one socket; a session is one connection to the *)
(* control endpoint, numbered in the order of the connects, and stays open *)
(* until the object disconnects while holding it.                          *)

NewConnection == [socket |-> 0]

(* connect: the endpoint accepts and the object holds the new session, or  *)
(* the connect raises and changes nothing                                  *)
transport_connect(srv, ss, t, accept) ==
    IF accept
    THEN [server |-> [socket |-> Len(ss) + 1],
          sessions |-> Append(ss, [owner |-> t, open |-> TRUE]),
          result |-> Return(None)]
    ELSE [server |-> srv, sessions |-> ss,
          result |-> Raise("ConnectionSetupError", <<>>)]

(* cmd: the reply to the request sent on the socket the object holds; it   *)
(* raises when the object holds none, or when the exchange fails           *)
transport_cmd(srv, reply, fails) ==
    IF srv.socket = 0 \/ fails THEN Raise("TransportError", <<>>)
    ELSE Return(reply)

(* disconnect: closes the session the object holds, if any *)
transport_disconnect(srv, ss) ==
    [server |-> [socket |-> 0],
     sessions |-> IF srv.socket = 0 THEN ss
                  ELSE [ss EXCEPT ![srv.socket].open = FALSE]]

----------------------------------------------------------------------------
(* Bounds and input sets *)

(* calls begun, constructor calls included *)
MaxCalls == 3

(* the encoded epoch integers of a built line range over -2..MaxEpoch *)
MaxEpoch == 1

(* the scenario lists of a built line have at most this many names *)
MaxScenarios == 2

DefaultPort == 50000

Threads == {"t1", "t2"}

MainThread == "t1"

Systems == {"Linux", "Windows"}

ConstructorArgs ==
    {[hostname |-> None, port |-> DefaultPort, passphrase |-> None,
      unix_socket |-> None],
     [hostname |-> <<"h">>, port |-> DefaultPort + 1,
      passphrase |-> <<"p", "w">>, unix_socket |-> None],
     [hostname |-> None, port |-> DefaultPort, passphrase |-> <<"p", "w">>,
      unix_socket |-> <<"/", "s">>]}

Databases == {<<"d", "b">>}

Properties == {<<"p">>}

Values == {<<>>, <<"v">>}

Call(op, db, property, value) ==
    [op |-> op, db |-> db, property |-> property, value |-> value,
     session |-> 0, pending |-> Return(None)]

Calls ==
    {Call(op, db, None, None) : op \in SimpleOps \cup {"get"}, db \in Databases}
    \cup {Call("status", db, None, None) : db \in Databases \cup {False}}
    \cup {Call("set", db, p, v) : db \in Databases, p \in Properties, v \in Values}
    \cup {Call("inherit", db, p, None) : db \in Databases, p \in Properties}
    \cup {Call("rename", db, None, <<"n">>) : db \in Databases}
    \cup {Call("defaults", None, None, None), Call("neighbours", None, None, None)}

EpochValues == (0 - 2)..MaxEpoch

ScenarioNames == <<<<"s", "q", "l">>, <<"m", "a", "l">>, <<"j", "a", "q", "l">>, <<"s", "p", "a", "r", "q", "l">>>>

ScenarioLists == {SubSeq(ScenarioNames, 1, n) : n \in 0..MaxScenarios}

Profiles ==
    {[name |-> <<"d", "b">>, path |-> <<"/", "p">>, locked |-> FALSE, state |-> 1,
      placeholder |-> <<"x">>, start_counter |-> 3, stop_counter |-> 2,
      crash_counter |-> 0, avg_uptime |-> 120, max_uptime |-> 300,
      min_uptime |-> 10, crash_avg1 |-> TRUE,
      crash_avg10 |-> <<"float", 0, 0>>, crash_avg30 |-> <<"float", 0, 0>>],
     [name |-> <<"a", ":", "b">>, path |-> <<"/", "v", ":", "1">>, locked |-> TRUE, state |-> 0,
      placeholder |-> <<>>, start_counter |-> 14, stop_counter |-> 9,
      crash_counter |-> 5, avg_uptime |-> 45, max_uptime |-> 99,
      min_uptime |-> 7, crash_avg1 |-> FALSE,
      crash_avg10 |-> <<"float", 15, 1>>, crash_avg30 |-> <<"float", 25, 2>>]}

Fields(p, s, lc, ls, lp) ==
    [name |-> p.name, path |-> p.path, locked |-> p.locked, state |-> p.state,
     scenarios |-> s, placeholder |-> p.placeholder,
     start_counter |-> p.start_counter, stop_counter |-> p.stop_counter,
     crash_counter |-> p.crash_counter, avg_uptime |-> p.avg_uptime,
     max_uptime |-> p.max_uptime, min_uptime |-> p.min_uptime,
     last_crash |-> lc, last_start |-> ls, last_stop |-> lp,
     crash_avg1 |-> p.crash_avg1, crash_avg10 |-> p.crash_avg10,
     crash_avg30 |-> p.crash_avg30]

(* the field values lines are built from; a version-1 line has no          *)
(* last_stop, which is then kept at -1                                     *)
FieldValues(v) ==
    {Fields(p, s, lc, ls, lp) :
        p \in Profiles, s \in ScenarioLists, lc \in EpochValues,
        ls \in EpochValues, lp \in IF v = 1 THEN {-1} ELSE EpochValues}

ExampleFields ==
    Fields(CHOOSE p \in Profiles : p.state = 1, <<<<"s", "q", "l">>>>, -1, 1, 0)

ExampleLine == StatusLine(FALSE, 2, FieldTokens(2, ExampleFields))

(* what the endpoint may answer to a request *)
Replies ==
    {<<>>, <<"n", "o">>, ExampleLine,
     <<"=">> \o ExampleLine \o <<"\n", "=">> \o ExampleLine,
     <<"n", "a", "m", "e", "=", "f", "o", "o", "\n", "#", "c", "o", "m", "m", "e", "n", "t", "\n", "p", "o", "r", "t", "=", "5", "0", "0", "0", "\n">>}

(* the longest reply, in lines, of the replies made of lines *)
MaxReplyLines == 2

(* the texts of n lines of the pool, joined by newlines *)
Joined(pool, n) == {join(ls, "\n") : ls \in [1..n -> pool]}

(* lines of a reply to get: properties, with and without the marker, a    *)
(* comment that holds "=", a value that holds "=", a line without "="     *)
PropLines ==
    {<<"a", "=", "b">>, <<"=", "a", "=", "c">>, <<"#", "c", "=", "d">>, <<"k", "=", "x", "=", "y">>, <<"q">>, <<"=", "#", "z", "=", "1">>, <<>>}

PropReplies == UNION {Joined(PropLines, n) : n \in 1..MaxReplyLines}

OtherFields ==
    Fields(CHOOSE p \in Profiles : p.state = 0, <<>>, 0, 0, -1)

(* lines of a reply to status: status lines of both versions, a line of a *)
(* version that is not supported, a line without the tag, the empty line  *)
StatusLines ==
    {ExampleLine, StatusLine(TRUE, 1, FieldTokens(1, OtherFields)),
     <<"s", "a", "b", "d", "b", ":", "3", ":", "x">>, <<"n", "o">>, <<>>}

StatusReplies == UNION {Joined(StatusLines, n) : n \in 1..MaxReplyLines}

(* what the endpoint may answer to the request of each method *)
RepliesFor ==
    [op \in {c.op : c \in Calls} |->
        Replies
        \cup (IF op \in {"get", "defaults"} THEN PropReplies ELSE {})
        \cup (IF op = "status" THEN StatusReplies ELSE {})]

(* the inputs of the runs with several threads *)
ConcConstructorArgs == {a \in ConstructorArgs : a.unix_socket # None}

ConcCalls == {c \in Calls : c.op \in {"create", "get"}}

ConcReplies == {r \in Replies : Len(r) <= 2}

ConcRepliesFor == [op \in {c.op : c \in ConcCalls} |-> ConcReplies]

(* the beginnings, version tokens and remainders of the raw lines *)
RawHeads == {TagSabdb, <<"=">> \o TagSabdb, <<"=", "=">> \o TagSabdb,
             <<"s", "a", "b", "d", "b">>, <<>>, <<"#">>}

RawVersions == {<<>>, <<"0">>, <<"1">>, <<"2">>, <<"3">>, <<"1", "0">>,
                <<" ", "2">>, <<"2", " ">>, <<"x">>}

RawRests ==
    {<<>>, <<":">>, <<":", "x", ",", "y">>,
     <<":">> \o join(FieldTokens(1, ExampleFields), ","),
     <<":">> \o join(FieldTokens(2, ExampleFields), ",")}

----------------------------------------------------------------------------
(* State *)

VARIABLES
    self,        \* the Control object's fields, NoObject before __init__ ran
    client,      \* TRUE once __init__ returned the object to its caller
    server,      \* self.server, the one mapi.Connection of the object
    sessions,    \* the sessions opened at the endpoint so far
    pc,          \* per thread: the statement it is about to execute
    frame,       \* per thread: the call in progress (or the last one)
    trace,       \* per thread: the transport calls of that call, in order
    outcome,     \* per thread: what the last call returned or raised
    init_trace,  \* the transport calls of the constructor call
    ncalls,      \* calls begun
    line,        \* the text last handed to parse_statusline directly
    made,        \* how that text was made
    parsed,      \* what parse_statusline did with it
    marked       \* what parse_statusline did with "=" followed by it

cvars == <<self, client, server, sessions, pc, frame, trace, outcome,
           init_trace, ncalls>>

pvars == <<line, made, parsed, marked>>

vars == <<cvars, pvars>>

NoObject == [object |-> "none"]

NoOutcome == [kind |-> "none", exc |-> "", val |-> None]

NoCall == Call("none", None, None, None)

(* the constructor call, with the arguments it was given *)
InitCall(a, system) ==
    [op |-> "__init__", db |-> None, property |-> None, value |-> None,
     session |-> 0, pending |-> Return(None), arguments |-> a,
     system |-> system]

Entry(call, arg, result, session) ==
    [call |-> call, arg |-> arg, result |-> result, session |-> session]

Init ==
    /\ self = NoObject
    /\ client = FALSE
    /\ server = NewConnection
    /\ sessions = <<>>
    /\ pc = [t \in Threads |-> "idle"]
    /\ frame = [t \in Threads |-> NoCall]
    /\ trace = [t \in Threads |-> <<>>]
    /\ outcome = [t \in Threads |-> NoOutcome]
    /\ init_trace = <<>>
    /\ ncalls = 0
    /\ line = <<>>
    /\ made = [how |-> "none"]
    /\ parsed = NoOutcome
    /\ marked = NoOutcome

----------------------------------------------------------------------------
(* Control.__init__, lines 88-108 *)

(* lines 91-101: the defaults, a fresh mapi.Connection, the fields *)
CallInit(t, arguments) ==
    /\ pc[t] = "idle"
    /\ self = NoObject
    /\ \A u \in Threads : pc[u] = "idle"
    /\ ncalls < MaxCalls
    /\ \E a \in arguments, system \in Systems :
          /\ self' = new_self(a.hostname, a.port, a.passphrase,
                              a.unix_socket, system)
          /\ frame' = [frame EXCEPT ![t] = InitCall(a, system)]
    /\ server' = NewConnection
    /\ pc' = [pc EXCEPT ![t] = "init_connect"]
    /\ trace' = [trace EXCEPT ![t] = <<>>]
    /\ outcome' = [outcome EXCEPT ![t] = NoOutcome]
    /\ init_trace' = <<>>
    /\ ncalls' = ncalls + 1
    /\ UNCHANGED <<client, sessions, pvars>>

(* a constructor that returns without the disconnect *)
after_init_connect_no_disconnect(r) == "idle"

(* where __init__ goes after its connect: on to the disconnect, or out     *)
(* with the error                                                          *)
after_init_connect(r) == IF r.kind = "raise" THEN "idle" ELSE "init_disconnect"

(* lines 104-107: the check connection; a raise leaves the constructor and *)
(* no object results                                                       *)
InitConnect(t) ==
    /\ pc[t] = "init_connect"
    /\ \E accept \in BOOLEAN :
          LET r == transport_connect(server, sessions, t, accept)
              args == connect_args(self.hostname, self.port, self.passphrase,
                                   self.unix_socket)
              next == after_init_connect(r.result)
          IN  /\ server' = r.server
              /\ sessions' = r.sessions
              /\ init_trace' = Append(init_trace,
                                      Entry("connect", args, r.result,
                                            r.server.socket))
              /\ pc' = [pc EXCEPT ![t] = next]
              /\ outcome' = [outcome EXCEPT
                                ![t] = IF next = "idle" THEN r.result ELSE @]
              /\ self' = IF r.result.kind = "raise" THEN NoObject ELSE self
              /\ client' = (next = "idle" /\ r.result.kind = "return")
    /\ UNCHANGED <<frame, trace, ncalls, pvars>>

(* line 108, then the constructor returns the object *)
InitDisconnect(t) ==
    /\ pc[t] = "init_disconnect"
    /\ LET r == transport_disconnect(server, sessions)
       IN  /\ server' = r.server
           /\ sessions' = r.sessions
           /\ init_trace' = Append(init_trace,
                                   Entry("disconnect", None, Return(None),
                                         server.socket))
    /\ pc' = [pc EXCEPT ![t] = "idle"]
    /\ outcome' = [outcome EXCEPT ![t] = Return(None)]
    /\ client' = TRUE
    /\ UNCHANGED <<self, frame, trace, ncalls, pvars>>

----------------------------------------------------------------------------
(* The public methods, lines 121-229, over _send_command, lines 110-119 *)

(* a thread that holds the object calls one of its methods *)
CallMethod(t, calls) ==
    /\ pc[t] = "idle"
    /\ client
    /\ ncalls < MaxCalls
    /\ \E c \in calls : frame' = [frame EXCEPT ![t] = c]
    /\ pc' = [pc EXCEPT ![t] = "connect"]
    /\ trace' = [trace EXCEPT ![t] = <<>>]
    /\ outcome' = [outcome EXCEPT ![t] = NoOutcome]
    /\ ncalls' = ncalls + 1
    /\ UNCHANGED <<self, client, server, sessions, init_trace, pvars>>

(* a _send_command that tries the connect again when it failed *)
after_connect_retry(r) == IF r.kind = "raise" THEN "connect" ELSE "cmd"

(* where _send_command goes after its connect: a raise leaves the call,    *)
(* the connect is outside the try                                          *)
after_connect(r) == IF r.kind = "raise" THEN "idle" ELSE "cmd"

(* lines 111-114 *)
SendConnect(t) ==
    /\ pc[t] = "connect"
    /\ \E accept \in BOOLEAN :
          LET r == transport_connect(server, sessions, t, accept)
              args == connect_args(self.hostname, self.port, self.passphrase,
                                   self.unix_socket)
              next == after_connect(r.result)
          IN  /\ server' = r.server
              /\ sessions' = r.sessions
              /\ trace' = [trace EXCEPT
                              ![t] = Append(@, Entry("connect", args, r.result,
                                                     r.server.socket))]
              /\ pc' = [pc EXCEPT ![t] = next]
              /\ outcome' = [outcome EXCEPT
                                ![t] = IF next = "idle" THEN r.result ELSE @]
              /\ frame' = [frame EXCEPT
                              ![t].session = IF r.result.kind = "return"
                                             THEN r.server.socket ELSE @]
    /\ UNCHANGED <<self, client, init_trace, ncalls, pvars>>

(* a _send_command without the finally clause: an error of cmd leaves the  *)
(* call at once                                                            *)
after_cmd_no_finally(r) == IF r.kind = "raise" THEN "idle" ELSE "disconnect"

(* where _send_command goes after cmd returned or raised: the finally      *)
(* clause, lines 117-119, runs in both cases                               *)
after_cmd(r) == "disconnect"

(* line 116 *)
SendCmd(t, replies) ==
    /\ pc[t] = "cmd"
    /\ \E reply \in replies[frame[t].op], fails \in BOOLEAN :
          LET r == transport_cmd(server, reply, fails)
              a == send_args(frame[t])
              next == after_cmd(r)
          IN  /\ trace' = [trace EXCEPT
                              ![t] = Append(@, Entry("cmd",
                                                     request_line(a[1], a[2]),
                                                     r, server.socket))]
              /\ frame' = [frame EXCEPT ![t].pending = r]
              /\ pc' = [pc EXCEPT ![t] = next]
              /\ outcome' = [outcome EXCEPT
                                ![t] = IF next = "idle" THEN r ELSE @]
    /\ UNCHANGED <<self, client, server, sessions, init_trace, ncalls, pvars>>

(* line 119, then _send_command returns the reply or lets the error of cmd *)
(* through, and the public method makes its result of the reply            *)
SendDisconnect(t) ==
    /\ pc[t] = "disconnect"
    /\ LET r == transport_disconnect(server, sessions)
       IN  /\ server' = r.server
           /\ sessions' = r.sessions
           /\ trace' = [trace EXCEPT
                           ![t] = Append(@, Entry("disconnect", None,
                                                  Return(None), server.socket))]
    /\ pc' = [pc EXCEPT ![t] = "idle"]
    /\ outcome' = [outcome EXCEPT
                      ![t] = IF frame[t].pending.kind = "raise"
                             THEN frame[t].pending
                             ELSE interpret(frame[t], frame[t].pending.val)]
    /\ UNCHANGED <<self, client, frame, init_trace, ncalls, pvars>>

(* one statement of thread t, its inputs drawn from the given sets *)
Step_(t, arguments, calls, replies) ==
    \/ CallInit(t, arguments)
    \/ InitConnect(t)
    \/ InitDisconnect(t)
    \/ CallMethod(t, calls)
    \/ SendConnect(t)
    \/ SendCmd(t, replies)
    \/ SendDisconnect(t)

----------------------------------------------------------------------------
(* parse_statusline applied directly to a line *)

(* a line built from field values, with or without the leading marker *)
ParseBuilt ==
    /\ made.how = "none"
    /\ \E v \in {1, 2}, marker \in BOOLEAN :
      \E f \in FieldValues(v) :
        /\ made' = [how |-> "built", version |-> v, marker |-> marker,
                    fields |-> f, pos |-> 0]
        /\ line' = StatusLine(marker, v, FieldTokens(v, f))
        /\ parsed' = parse_statusline(line')
        /\ marked' = parse_statusline(<<"=">> \o line')
        /\ UNCHANGED cvars

(* a line built from field values, one field of the block left out *)
ParseRemoved ==
    /\ made.how = "none"
    /\ \E v \in {1, 2}, marker \in BOOLEAN :
      \E f \in FieldValues(v) :
        \E pos \in 1..Len(FieldTokens(v, f)) :
          /\ f.last_start >= 0
          /\ f.last_crash >= -1
          /\ f.last_stop >= -1
          /\ made' = [how |-> "removed", version |-> v, marker |-> marker,
                      fields |-> f, pos |-> pos]
          /\ line' = StatusLine(marker, v, RemoveAt(FieldTokens(v, f), pos))
          /\ parsed' = parse_statusline(line')
          /\ marked' = parse_statusline(<<"=">> \o line')
          /\ UNCHANGED cvars

(* any other line: a beginning, a version token, a remainder *)
ParseRaw ==
    /\ made.how = "none"
    /\ \E head \in RawHeads, version \in RawVersions, rest \in RawRests :
        /\ made' = [how |-> "raw", head |-> head, version |-> version,
                    rest |-> rest]
        /\ line' = head \o version \o rest
        /\ parsed' = parse_statusline(line')
        /\ marked' = parse_statusline(<<"=">> \o line')
        /\ UNCHANGED cvars

----------------------------------------------------------------------------
(* Specifications *)

(* one thread: the calls on the object follow one another *)
Next == Step_(MainThread, ConstructorArgs, Calls, RepliesFor)

Spec == Init /\ [][Next]_vars

(* several threads call methods of the one object *)
NextConc ==
    \E t \in Threads : Step_(t, ConcConstructorArgs, ConcCalls, ConcRepliesFor)

SpecConc == Init /\ [][NextConc]_vars

(* the parser alone *)
NextParse == ParseBuilt \/ ParseRemoved \/ ParseRaw

SpecParse == Init /\ [][NextParse]_vars

----------------------------------------------------------------------------
(* Properties of the Control client *)

Connected ==
    server.socket # 0 \/ \E i \in 1..Len(sessions) : sessions[i].open

IsCommand(c) == c.op \notin {"none", "__init__"}

(* every successful connect of the trace is followed by a disconnect of    *)
(* the session it opened                                                   *)
Released(tr) ==
    \A i \in 1..Len(tr) :
        (tr[i].call = "connect" /\ tr[i].result.kind = "return")
        => \E j \in (i + 1)..Len(tr) :
              tr[j].call = "disconnect" /\ tr[j].session = tr[i].session

(* C1: with one thread making the calls, whenever no call is in progress   *)
(* every connect that succeeded in the last call (a command through        *)
(* _send_command, or the constructor) has been followed by a disconnect,   *)
(* also when cmd raised, and the transport is not connected.               *)
C1_DisconnectOnEveryExit ==
    pc[MainThread] = "idle"
    => /\ Released(trace[MainThread])
       /\ Released(init_trace)
       /\ ~Connected

(* a command whose cmd raised has returned, after its disconnect *)
C1_Witness ==
    /\ pc[MainThread] = "idle"
    /\ IsCommand(frame[MainThread])
    /\ Len(trace[MainThread]) = 3
    /\ trace[MainThread][2].call = "cmd"
    /\ trace[MainThread][2].result.kind = "raise"
    /\ trace[MainThread][3].call = "disconnect"
    /\ outcome[MainThread].kind = "raise"
    /\ ~Connected

(* C2: with several threads calling methods of the one object, a thread    *)
(* that has connected and not yet disconnected still finds the object      *)
(* holding the session its own connect opened, and that session open: no   *)
(* other call's connect or disconnect touches it.                          *)
C2_OwnConnection ==
    \A t \in Threads :
        pc[t] \in {"cmd", "disconnect"}
        => /\ server.socket = frame[t].session
           /\ sessions[frame[t].session].open

(* C3: a mutating command whose cmd returned reply r returns True when r   *)
(* is empty, and otherwise raises OperationalError with r as its message.  *)
C3_MutatingReply ==
    \A t \in Threads :
        (/\ pc[t] = "idle"
         /\ frame[t].op \in MutatingOps
         /\ Len(trace[t]) >= 2
         /\ trace[t][2].call = "cmd"
         /\ trace[t][2].result.kind = "return")
        => IF trace[t][2].result.val = <<>>
           THEN outcome[t].kind = "return" /\ outcome[t].val = TRUE
           ELSE /\ outcome[t].kind = "raise"
                /\ outcome[t].exc = "OperationalError"
                /\ outcome[t].val = trace[t][2].result.val

(* inherit got a non-empty reply and raised it *)
C3_Witness ==
    /\ pc[MainThread] = "idle"
    /\ frame[MainThread].op = "inherit"
    /\ Len(trace[MainThread]) = 3
    /\ trace[MainThread][2].result.kind = "return"
    /\ trace[MainThread][2].result.val = <<"n", "o">>
    /\ outcome[MainThread].kind = "raise"
    /\ outcome[MainThread].val = <<"n", "o">>

(* the connect of the verification round trip: the fixed principal, the    *)
(* supplied passphrase                                                     *)
IsCheckConnect(e, passphrase) ==
    /\ e.call = "connect"
    /\ e.arg.username = <<"m", "o", "n", "e", "t", "d", "b">>
    /\ e.arg.database =
          <<"m", "e", "r", "o", "v", "i", "n", "g", "i", "a", "n">>
    /\ e.arg.language = <<"c", "o", "n", "t", "r", "o", "l">>
    /\ e.arg.password = passphrase

RoundTripDone ==
    /\ Len(init_trace) = 2
    /\ init_trace[1].call = "connect"
    /\ init_trace[1].result.kind = "return"
    /\ init_trace[2].call = "disconnect"

(* C4: a constructor call that has finished made one connect with          *)
(* username monetdb, database merovingian, language control and the        *)
(* supplied passphrase; it then either disconnected, sent nothing and      *)
(* returned the object, or the connect failed and it raised the connection *)
(* error and no object results.  A command is only ever begun on an object *)
(* whose round trip succeeded.                                             *)
C4_VerificationRoundTrip ==
    /\ \A t \in Threads :
          (frame[t].op = "__init__" /\ pc[t] = "idle")
          => /\ Len(init_trace) >= 1
             /\ IsCheckConnect(init_trace[1], frame[t].arguments.passphrase)
             /\ \/ /\ outcome[t].kind = "return"
                   /\ client
                   /\ RoundTripDone
                \/ /\ outcome[t].kind = "raise"
                   /\ outcome[t].exc = "ConnectionSetupError"
                   /\ ~client
                   /\ self = NoObject
                   /\ Len(init_trace) = 1
                   /\ init_trace[1].result.kind = "raise"
    /\ \A t \in Threads : IsCommand(frame[t]) => client /\ RoundTripDone

(* a constructor given a passphrase has returned the object *)
C4_Witness ==
    /\ pc[MainThread] = "idle"
    /\ frame[MainThread].op = "__init__"
    /\ frame[MainThread].arguments.passphrase = <<"p", "w">>
    /\ outcome[MainThread].kind = "return"
    /\ client

(* C5: a command call makes at most one connect, then at most one cmd      *)
(* carrying "<database-name> <command-text>\n", then at most one           *)
(* disconnect, in that order; after a failed connect it sends nothing and  *)
(* raises that error, and a failed cmd is not sent again but raised.       *)
C5_ExactlyOnce ==
    \A t \in Threads :
        IsCommand(frame[t])
        => LET tr == trace[t]
               a == send_args(frame[t])
           IN  /\ Len(tr) <= 3
               /\ Len(tr) >= 1 => tr[1].call = "connect"
               /\ Len(tr) >= 2
                  => /\ tr[1].result.kind = "return"
                     /\ tr[2].call = "cmd"
                     /\ tr[2].arg = a[1] \o <<" ">> \o a[2] \o <<"\n">>
               /\ Len(tr) >= 3 => tr[3].call = "disconnect"
               /\ pc[t] = "idle"
                  => \/ /\ Len(tr) = 1
                        /\ tr[1].result.kind = "raise"
                        /\ outcome[t].kind = "raise"
                        /\ outcome[t].exc = tr[1].result.exc
                     \/ /\ Len(tr) = 3
                        /\ tr[2].result.kind = "raise"
                           => /\ outcome[t].kind = "raise"
                              /\ outcome[t].exc = tr[2].result.exc

(* a command whose connect failed has raised, nothing sent *)
C5_Witness ==
    /\ pc[MainThread] = "idle"
    /\ IsCommand(frame[MainThread])
    /\ Len(trace[MainThread]) = 1
    /\ trace[MainThread][1].result.kind = "raise"
    /\ outcome[MainThread].exc = "ConnectionSetupError"

----------------------------------------------------------------------------
(* Properties of parse_statusline *)

Elements(seq) == {seq[i] : i \in 1..Len(seq)}

(* a line the supervisor sends: last_start set, the optional timestamps    *)
(* set or the -1 sentinel                                                  *)
ValidFields(f) ==
    f.last_start >= 0 /\ f.last_crash >= -1 /\ f.last_stop >= -1

OptionalTime(n) == IF n < 0 THEN <<"None">> ELSE <<"datetime", n>>

CommonKeys ==
    {"name", "path", "locked", "state", "scenarios", "start_counter",
     "stop_counter", "crash_counter", "avg_uptime", "max_uptime",
     "min_uptime", "last_crash", "last_start", "crash_avg1", "crash_avg10",
     "crash_avg30"}

(* C6: a valid version-1 or version-2 line built from field values parses  *)
(* to a record whose every field equals the value the line was built from, *)
(* scenarios as the set of names; last_stop is there under version 2 only. *)
C6_RoundTrip ==
    (made.how = "built" /\ ValidFields(made.fields))
    => /\ parsed.kind = "return"
       /\ LET info == parsed.val
              f == made.fields
          IN  /\ DOMAIN info = CommonKeys
                    \cup (IF made.version = 2 THEN {"last_stop"} ELSE {})
              /\ info.name = f.name
              /\ info.path = f.path
              /\ info.locked = f.locked
              /\ info.state = f.state
              /\ Elements(info.scenarios) = Elements(f.scenarios)
              /\ info.start_counter = f.start_counter
              /\ info.stop_counter = f.stop_counter
              /\ info.crash_counter = f.crash_counter
              /\ info.avg_uptime = f.avg_uptime
              /\ info.max_uptime = f.max_uptime
              /\ info.min_uptime = f.min_uptime
              /\ info.last_crash = OptionalTime(f.last_crash)
              /\ info.last_start = <<"datetime", f.last_start>>
              /\ made.version = 2 => info.last_stop = OptionalTime(f.last_stop)
              /\ info.crash_avg1 = f.crash_avg1
              /\ info.crash_avg10 = f.crash_avg10
              /\ info.crash_avg30 = f.crash_avg30

(* the line begins with the tag, after the optional marker *)
HasTag == made.head \in {TagSabdb, <<"=">> \o TagSabdb}

(* C7: a line with the sabdb: tag whose version token is neither 1 nor 2   *)
(* makes parse_statusline raise InterfaceError, whatever follows.          *)
C7_UnsupportedVersion ==
    (made.how = "raw" /\ HasTag /\ made.version \notin {<<"1">>, <<"2">>})
    => parsed.kind = "raise" /\ parsed.exc = "InterfaceError"

(* C8: a valid line with one field of its block removed makes              *)
(* parse_statusline fail for want of a token (StopIteration).              *)
C8_RemovedFieldMalformed ==
    made.how = "removed"
    => parsed.kind = "raise" /\ parsed.exc = "StopIteration"

(* C9: in a returned record last_crash, and under version 2 last_stop, is  *)
(* None exactly when the encoded integer is negative, and is the timestamp *)
(* of that integer when it is 0 or more.                                   *)
C9_OptionalTimestamps ==
    (made.how = "built" /\ parsed.kind = "return")
    => /\ (parsed.val.last_crash = <<"None">>) <=> (made.fields.last_crash < 0)
       /\ made.fields.last_crash >= 0
          => parsed.val.last_crash = <<"datetime", made.fields.last_crash>>
       /\ made.version = 2
          => /\ (parsed.val.last_stop = <<"None">>)
                <=> (made.fields.last_stop < 0)
             /\ made.fields.last_stop >= 0
                => parsed.val.last_stop = <<"datetime", made.fields.last_stop>>

(* a version-2 line with both encoded as 0 gave the epoch itself twice *)
C9_Witness ==
    /\ made.how = "built"
    /\ made.version = 2
    /\ made.fields.last_crash = 0
    /\ made.fields.last_stop = 0
    /\ parsed.kind = "return"
    /\ parsed.val.last_crash = <<"datetime", 0>>
    /\ parsed.val.last_stop = <<"datetime", 0>>

TimestampKeys == {"last_crash", "last_start", "last_stop"}

(* C10: in a returned record no timestamp field holds a timestamp decoded  *)
(* from a negative encoded value: such a field is None.                    *)
C10_NegativeMeansUnset ==
    (made.how = "built" /\ parsed.kind = "return")
    => \A k \in TimestampKeys \cap DOMAIN parsed.val :
          made.fields[k] < 0 => parsed.val[k] = <<"None">>

(* the same record, or the same failure *)
SameOutcome(a, b) == a.kind = b.kind /\ a.exc = b.exc /\ a.val = b.val

(* C11 as stated: for every body b, "=" followed by b and b itself have    *)
(* the same outcome.                                                       *)
C11_MarkerNeverMatters ==
    made.how # "none" => SameOutcome(marked, parsed)

(* C11: for every body b that does not itself begin with "=", "=" followed *)
(* by b and b itself have the same outcome: the same record, or the same   *)
(* failure.                                                                *)
C11_MarkerOptional ==
    (made.how # "none" /\ ~startswith(line, <<"=">>))
    => SameOutcome(marked, parsed)

(* a built line without the marker, and the same line with it, gave the    *)
(* same record                                                             *)
C11_Witness ==
    /\ made.how = "built"
    /\ ~made.marker
    /\ parsed.kind = "return"
    /\ marked.kind = "return"
    /\ marked.val = parsed.val

(* C19: only the first two colons of a line delimit: a built line whose    *)
(* name and path hold colons parses, name and path come back with their    *)
(* colons, and every field after them holds the value of its own token.    *)
C19_FirstTwoColons ==
    made.how = "built"
    => /\ parsed.kind = "return"
       /\ LET info == parsed.val
              f == made.fields
          IN  /\ info.name = f.name
              /\ info.path = f.path
              /\ info.locked = f.locked
              /\ info.state = f.state
              /\ info.start_counter = f.start_counter
              /\ info.min_uptime = f.min_uptime
              /\ info.last_start = <<"datetime", f.last_start>>
              /\ info.crash_avg1 = f.crash_avg1
              /\ info.crash_avg30 = f.crash_avg30

(* a line whose name and path hold a colon each gave them back whole *)
C19_Witness ==
    /\ made.how = "built"
    /\ find(made.fields.name, ":") # 0
    /\ find(made.fields.path, ":") # 0
    /\ parsed.kind = "return"
    /\ parsed.val.name = made.fields.name
    /\ parsed.val.path = made.fields.path

(* the main thread's call of one of the methods ops has returned; its     *)
(* trace is connect, cmd, disconnect                                      *)
Returned(ops) ==
    /\ pc[MainThread] = "idle"
    /\ frame[MainThread].op \in ops
    /\ outcome[MainThread].kind = "return"
    /\ Len(trace[MainThread]) = 3

(* the request the call sent and the reply it got *)
SentRequest == trace[MainThread][2].arg

GotReply == trace[MainThread][2].result.val

(* a reply line without its leading marker *)
Unmarked(l) == IF l # <<>> /\ l[1] = "=" THEN Tail(l) ELSE l

(* the lines of a reply to get, markers removed *)
PropertyLines(raw) ==
    LET lines == split(raw, "\n", -1)
    IN  [i \in 1..Len(lines) |-> Unmarked(lines[i])]

(* a line that is no comment and holds "=" *)
Contributes(l) == (l = <<>> \/ l[1] # "#") /\ \E i \in 1..Len(l) : l[i] = "="

BeforeFirst(l) == SubSeq(l, 1, find(l, "=") - 1)

AfterFirst(l) == SubSeq(l, find(l, "=") + 1, Len(l))

(* the last line of ls that contributes key k *)
LastFor(ls, k) ==
    CHOOSE i \in 1..Len(ls) :
        /\ Contributes(ls[i]) /\ BeforeFirst(ls[i]) = k
        /\ \A j \in (i + 1)..Len(ls) :
              ~(Contributes(ls[j]) /\ BeforeFirst(ls[j]) = k)

(* C12: the mapping get (and defaults) returns holds, for every key, the  *)
(* whole text after the first "=" of the last line that contributes the   *)
(* key, so a value that holds "=" comes back complete.                    *)
C12_WholeValue ==
    Returned({"get", "defaults"})
    => LET ls == PropertyLines(GotReply)
           values == outcome[MainThread].val
       IN  \A k \in DOMAIN values :
              \E i \in 1..Len(ls) :
                 /\ Contributes(ls[i]) /\ BeforeFirst(ls[i]) = k
                 /\ values[k] = AfterFirst(ls[LastFor(ls, k)])

(* C13: the mapping get (and defaults) returns has exactly the keys of    *)
(* the reply lines that, after the marker is removed, are no comment and  *)
(* hold "="; the value under a key is taken from the last such line with  *)
(* that key, from the start of the text after its first "="; the reply    *)
(* name=foo, #comment, port=5000 gives name -> foo and port -> 5000.      *)
C13_MappingOfLines ==
    Returned({"get", "defaults"})
    => LET ls == PropertyLines(GotReply)
           values == outcome[MainThread].val
       IN  /\ DOMAIN values
                 = {BeforeFirst(ls[i]) : i \in {j \in 1..Len(ls) : Contributes(ls[j])}}
           /\ \A k \in DOMAIN values :
                 LET whole == AfterFirst(ls[LastFor(ls, k)])
                 IN  /\ startswith(whole, values[k])
                     /\ find(whole, "=") = 0 => values[k] = whole
           /\ GotReply = <<"n", "a", "m", "e", "=", "f", "o", "o", "\n", "#", "c", "o", "m", "m", "e", "n", "t", "\n", "p", "o", "r", "t", "=", "5", "0", "0", "0", "\n">>
              => values = [k \in {T_name, <<"p", "o", "r", "t">>} |->
                              IF k = T_name THEN <<"f", "o", "o">> ELSE <<"5", "0", "0", "0">>]

(* a reply with a marked line, a comment that holds "=", a line without   *)
(* "=" and a key given twice came back as the mapping of the last values  *)
C13_Witness ==
    /\ Returned({"get", "defaults"})
    /\ \E i, j \in 1..Len(PropertyLines(GotReply)) :
          /\ i < j
          /\ PropertyLines(GotReply)[i] = <<"a", "=", "b">>
          /\ split(GotReply, "\n", -1)[j] = <<"=", "a", "=", "c">>
    /\ outcome[MainThread].val = [k \in {<<"a">>} |-> <<"c">>]

(* the main thread's call of one of the methods ops is over and its cmd   *)
(* got a reply                                                            *)
Replied(ops) ==
    /\ pc[MainThread] = "idle"
    /\ frame[MainThread].op \in ops
    /\ Len(trace[MainThread]) = 3
    /\ trace[MainThread][2].result.kind = "return"

(* the index of the first line of ls that fails to parse *)
FirstFailing(ls) ==
    CHOOSE i \in 1..Len(ls) :
        /\ parse_statusline(ls[i]).kind = "raise"
        /\ \A j \in 1..(i - 1) : parse_statusline(ls[j]).kind = "return"

(* C14: status() without a database name sends "#all status", parses     *)
(* every line of the reply on its own and returns the records in the      *)
(* order of the lines; when a line fails, the call fails with the error   *)
(* of the first such line and returns no record.                          *)
C14_StatusAll ==
    (Replied({"status"}) /\ ~Truthy(frame[MainThread].db))
    => LET ls == split(GotReply, "\n", -1)
           result == outcome[MainThread]
       IN  /\ SentRequest = <<"#", "a", "l", "l", " ", "s", "t", "a", "t", "u", "s", "\n">>
           /\ IF \A i \in 1..Len(ls) : parse_statusline(ls[i]).kind = "return"
              THEN /\ result.kind = "return"
                   /\ Len(result.val) = Len(ls)
                   /\ \A i \in 1..Len(ls) :
                         result.val[i] = parse_statusline(ls[i]).val
              ELSE result = parse_statusline(ls[FirstFailing(ls)])

(* a reply of two different status lines came back as their two records, *)
(* in the order of the lines                                              *)
C14_Witness ==
    /\ Replied({"status"})
    /\ ~Truthy(frame[MainThread].db)
    /\ outcome[MainThread].kind = "return"
    /\ Len(outcome[MainThread].val) = 2
    /\ outcome[MainThread].val[1].name = OtherFields.name
    /\ outcome[MainThread].val[2].name = ExampleFields.name

(* C16 as stated: a status call whose reply has not the shape of a status *)
(* line fails with an error kind other than the OperationalError of a     *)
(* mutating command that got a reply that is not empty.                   *)
C16_DistinctKinds ==
    (/\ Replied({"status"})
     /\ Truthy(frame[MainThread].db)
     /\ ~startswith(Unmarked(GotReply), TagSabdb))
    => /\ outcome[MainThread].kind = "raise"
       /\ outcome[MainThread].exc # isempty(GotReply).exc

(* C15: once the constructor has returned the object, no step changes its *)
(* hostname, port, passphrase or unix_socket, and every connect of a      *)
(* command carries exactly those four values with username monetdb,       *)
(* database merovingian and language control, as the connect of the       *)
(* constructor did.                                                       *)
C15_ParametersFixed ==
    [][/\ client => (client' /\ self' = self)
       /\ \A t \in Threads :
             IsCommand(frame'[t])
             => \A i \in 1..Len(trace'[t]) :
                   trace'[t][i].call = "connect"
                   => /\ trace'[t][i].arg
                           = [hostname |-> self'.hostname,
                              port |-> self'.port,
                              username |-> T_monetdb,
                              password |-> self'.passphrase,
                              database |-> T_merovingian,
                              language |-> T_control,
                              unix_socket |-> self'.unix_socket]
                      /\ trace'[t][i].arg = init_trace'[1].arg]_vars

(* a command of an object made with a passphrase failed, after an earlier *)
(* command, and its connect carried the passphrase                        *)
C15_Witness ==
    /\ client
    /\ ncalls >= 3
    /\ pc[MainThread] = "idle"
    /\ IsCommand(frame[MainThread])
    /\ Len(trace[MainThread]) = 3
    /\ outcome[MainThread].kind = "raise"
    /\ self.passphrase = <<"p", "w">>
    /\ trace[MainThread][1].arg.password = <<"p", "w">>

(* C17 as stated: whatever the line, parse_statusline returns a record or *)
(* fails with the protocol-mismatch (OperationalError), the               *)
(* unsupported-version (InterfaceError) or the malformed-line             *)
(* (StopIteration) error.                                                 *)
C17_DefinedFailures ==
    made.how # "none"
    => \/ parsed.kind = "return"
       \/ /\ parsed.kind = "raise"
          /\ parsed.exc \in {"OperationalError", "InterfaceError",
                             "StopIteration"}

(* the call a derived operation stands for *)
Expansion(c) ==
    CASE c.op = "inherit" -> Call("set", c.db, c.property, <<>>)
      [] c.op = "rename" -> Call("set", c.db, T_name, c.value)
      [] c.op = "defaults" -> Call("get", <<"#", "d", "e", "f", "a", "u", "l", "t", "s">>, None, None)
      [] OTHER -> c

(* the request line each of set, inherit, rename and defaults sends *)
ExpectedRequest(c) ==
    CASE c.op = "set" ->
            c.db \o <<" ">> \o c.property \o <<"=">> \o c.value \o <<"\n">>
      [] c.op = "inherit" -> c.db \o <<" ">> \o c.property \o <<"=", "\n">>
      [] c.op = "rename" -> c.db \o <<" ", "n", "a", "m", "e", "=">> \o c.value \o <<"\n">>
      [] c.op = "defaults" -> <<"#", "d", "e", "f", "a", "u", "l", "t", "s", " ", "g", "e", "t", "\n">>

(* C18: set(db, p, v) sends "db p=v\n", inherit(db, p) sends "db p=\n",    *)
(* rename(old, new) sends "old name=new\n" and defaults() sends           *)
(* "#defaults get\n"; each of inherit, rename and defaults sends the      *)
(* request of its expansion (set(db, p, ""), set(old, "name", new),       *)
(* get("#defaults")) between one connect and one disconnect, and ends     *)
(* with the result or error the expansion makes of the same reply.        *)
C18_DerivedOperations ==
    LET c == frame[MainThread]
        tr == trace[MainThread]
    IN  (c.op \in {"set", "inherit", "rename", "defaults"} /\ Len(tr) >= 2)
        => /\ tr[1].call = "connect"
           /\ tr[2].call = "cmd"
           /\ tr[2].arg = ExpectedRequest(c)
           /\ tr[2].arg = request_line(send_args(Expansion(c))[1],
                                       send_args(Expansion(c))[2])
           /\ (pc[MainThread] = "idle" /\ Len(tr) = 3)
              => /\ tr[3].call = "disconnect"
                 /\ outcome[MainThread]
                       = IF tr[2].result.kind = "raise" THEN tr[2].result
                         ELSE interpret(Expansion(c), tr[2].result.val)

(* a rename sent the request of the set it stands for and was accepted *)
C18_Witness ==
    /\ Returned({"rename"})
    /\ SentRequest = <<"d", "b", " ", "n", "a", "m", "e", "=", "n", "\n">>
    /\ outcome[MainThread].val = TRUE

====
